---- MODULE Spec2Model ----
(***************************************************************************)
(* Attack-table engine of diogenes-v2 (src/attacks.rs) with the bitboard   *)
(* primitives (src/bitboard.rs) and the direction model (src/direction.rs) *)
(* it is built from.                                                       *)
(*                                                                         *)
(* A Bitboard (a u64) is modelled as the set of the indices of its set     *)
(* bits, a subset of 0..63: bit i is set iff i is a member.  Bits shifted  *)
(* past bit 63 or below bit 0 are dropped, as a u64 shift drops them.  The *)
(* 64-bit arithmetic of the De Bruijn bit scans (val - 1, wrapping_mul) is *)
(* carried out on the eight bytes of the value, least significant first.   *)
(***************************************************************************)
EXTENDS Integers, Sequences, FiniteSets, TLC

VARIABLES
    pc,          \* "building" (inside Attacks::new), "ready", "returned", "panicked"
    next_sq,     \* position of the `for sq in Square::iter().take(63)` loop
    white_pawn,  \* Attacks.white_pawn : [Square -> Bitboard]
    black_pawn,  \* Attacks.black_pawn
    king,        \* Attacks.king
    knight,      \* Attacks.knight
    rays,        \* Attacks.rays : [0..7 -> [Square -> Bitboard]]
    call,        \* the query in progress or last answered: [op, sq, arg]
    ret          \* the Bitboard the query returned

vars == <<pc, next_sq, white_pawn, black_pawn, king, knight, rays, call, ret>>

tables == <<white_pawn, black_pawn, king, knight, rays>>

-----------------------------------------------------------------------------
(* Bounds of the model: the bitboards a caller passes to a query hold at    *)
(* most MaxOccupied squares, or all but at most MaxVacant squares, or are   *)
(* one of the bitboards of the repository's tests (TestBitboards).          *)

MaxOccupied == 1

MaxVacant == 0

-----------------------------------------------------------------------------
(* square.rs: enum Square, LERF mapping, A1 = 0 .. H8 = 63                  *)

NumSquares == 64

Square == 0 .. (NumSquares - 1)

A1 == 0
D1 == 3
E1 == 4
C2 == 10
B3 == 17
D4 == 27
D7 == 51
H8 == 63

\* board::index: (8 * rank) + file
index(file, rank) == (8 * rank) + file

\* Square::file and Square::rank, as numbers 0..7
FileOf(s) == s % 8

RankOf(s) == s \div 8

\* Square::from_i32 (derived FromPrimitive): Some(square) for 0..63, else None
\* Square::from_i32 that wraps its argument onto the board instead of returning None
Square_from_i32_wrapping(n) == [some |-> TRUE, sq |-> n % NumSquares]

Square_from_i32(n) ==
    IF n \in Square THEN [some |-> TRUE, sq |-> n] ELSE [some |-> FALSE, sq |-> 0]

\* impl From<Square> for Bitboard: 1 << i
Square_bitboard(sq) == {sq}

-----------------------------------------------------------------------------
(* u64 values as bytes, least significant byte first (1-indexed tuples)     *)

BitVal(bb, n, w) == IF n \in bb THEN w ELSE 0

ByteOf(bb, i) ==
    BitVal(bb, 8 * i, 1) + BitVal(bb, 8 * i + 1, 2) + BitVal(bb, 8 * i + 2, 4)
      + BitVal(bb, 8 * i + 3, 8) + BitVal(bb, 8 * i + 4, 16)
      + BitVal(bb, 8 * i + 5, 32) + BitVal(bb, 8 * i + 6, 64)
      + BitVal(bb, 8 * i + 7, 128)

to_bytes(bb) == [i \in 1 .. 8 |-> ByteOf(bb, i - 1)]

from_bytes(b) == {n \in 0 .. 63 : (b[(n \div 8) + 1] \div (2 ^ (n % 8))) % 2 = 1}

\* val - 1 on a non-zero u64: subtract with borrow through the bytes
RECURSIVE SubBorrow(_, _, _)
SubBorrow(b, k, borrow) ==
    IF k > 8 THEN <<>>
    ELSE LET t == b[k] - borrow
         IN  IF t < 0 THEN <<t + 256>> \o SubBorrow(b, k + 1, 1)
                      ELSE <<t>> \o SubBorrow(b, k + 1, 0)

sub_one(bb) == from_bytes(SubBorrow(to_bytes(bb), 1, 1))

\* u64::wrapping_mul: schoolbook product of the bytes, truncated to 64 bits
RECURSIVE MulColumn(_, _, _, _)
MulColumn(a, b, k, i) ==
    IF i > k THEN 0 ELSE a[i] * b[k + 1 - i] + MulColumn(a, b, k, i + 1)

RECURSIVE MulCarry(_, _, _, _)
MulCarry(a, b, k, carry) ==
    IF k > 8 THEN <<>>
    ELSE LET t == MulColumn(a, b, k, 1) + carry
         IN  <<t % 256>> \o MulCarry(a, b, k + 1, t \div 256)

wrapping_mul(a, b) == MulCarry(a, b, 1, 0)

-----------------------------------------------------------------------------
(* board.rs: bitboard constants                                             *)

A_FILE == from_bytes(<<1, 1, 1, 1, 1, 1, 1, 1>>)              \* 0x0101010101010101
AB_FILE == from_bytes(<<3, 3, 3, 3, 3, 3, 3, 3>>)             \* 0x0303030303030303
GH_FILE == from_bytes(<<192, 192, 192, 192, 192, 192, 192, 192>>)  \* 0xc0c0...
H_FILE == from_bytes(<<128, 128, 128, 128, 128, 128, 128, 128>>)   \* 0x8080...
LIGHT_SQUARES == from_bytes(<<170, 85, 170, 85, 170, 85, 170, 85>>) \* 0x55aa55aa55aa55aa
DARK_SQUARES == from_bytes(<<85, 170, 85, 170, 85, 170, 85, 170>>)  \* 0xaa55aa55aa55aa55
ALL_SQUARES == LIGHT_SQUARES \cup DARK_SQUARES

\* Bitboard operators (impl BitAnd / BitOr / BitXor / Not / Shl for Bitboard)
BitAnd(a, b) == a \cap b

BitOr(a, b) == a \cup b

BitXor(a, b) == (a \ b) \cup (b \ a)

BitNot(a) == (0 .. 63) \ a

NOT_A_FILE == BitNot(A_FILE)
NOT_H_FILE == BitNot(H_FILE)
NOT_AB_FILE == BitNot(AB_FILE)
NOT_GH_FILE == BitNot(GH_FILE)

\* impl Shl<isize>: left by rhs when rhs > 0, else right by -rhs
Shl(bb, rhs) ==
    IF rhs > 0
    THEN {i + rhs : i \in {j \in bb : j + rhs <= 63}}
    ELSE {i - (-rhs) : i \in {j \in bb : j - (-rhs) >= 0}}

\* u64 >> n, used by bitscan_reverse
ShrU64(bb, n) == {i - n : i \in {j \in bb : j - n >= 0}}

-----------------------------------------------------------------------------
(* direction.rs                                                             *)

\* RayDirection::iter(): declaration order
RayDirection == <<"N", "NE", "E", "SE", "S", "SW", "W", "NW">>

\* KnightDirection::iter(): declaration order
KnightDirection == <<"NNE", "NEE", "SEE", "SSE", "SSW", "SWW", "NWW", "NNW">>

BISHOP_DIRS == <<"NE", "NW", "SE", "SW">>

ROOK_DIRS == <<"N", "S", "E", "W">>

shift(dir) ==
    CASE dir = "N" -> 8
      [] dir = "S" -> -8
      [] dir = "NE" -> 9
      [] dir = "SW" -> -9
      [] dir = "E" -> 1
      [] dir = "W" -> -1
      [] dir = "NW" -> 7
      [] dir = "SE" -> -7
      [] dir = "NNE" -> 17
      [] dir = "SSW" -> -17
      [] dir = "NEE" -> 10
      [] dir = "SWW" -> -10
      [] dir = "SEE" -> -6
      [] dir = "NWW" -> 6
      [] dir = "SSE" -> -15
      [] dir = "NNW" -> 15

\* Direction::mask with the A-file and H-file masks of the ray directions exchanged
mask_exchanged(dir) ==
    CASE dir \in {"E", "NE", "SE"} -> NOT_H_FILE
      [] dir \in {"W", "NW", "SW"} -> NOT_A_FILE
      [] dir \in {"N", "S"} -> ALL_SQUARES
      [] dir \in {"NNE", "SSE"} -> NOT_A_FILE
      [] dir \in {"NNW", "SSW"} -> NOT_H_FILE
      [] dir \in {"NEE", "SEE"} -> NOT_AB_FILE
      [] dir \in {"NWW", "SWW"} -> NOT_GH_FILE

mask(dir) ==
    CASE dir \in {"E", "NE", "SE"} -> NOT_A_FILE
      [] dir \in {"W", "NW", "SW"} -> NOT_H_FILE
      [] dir \in {"N", "S"} -> ALL_SQUARES
      [] dir \in {"NNE", "SSE"} -> NOT_A_FILE
      [] dir \in {"NNW", "SSW"} -> NOT_H_FILE
      [] dir \in {"NEE", "SEE"} -> NOT_AB_FILE
      [] dir \in {"NWW", "SWW"} -> NOT_GH_FILE

-----------------------------------------------------------------------------
(* bitboard.rs                                                              *)

DEBRUIJN_LOOKUP ==
    << 0, 47,  1, 56, 48, 27,  2, 60, 57, 49, 41, 37, 28, 16,  3, 61,
      54, 58, 35, 52, 50, 42, 21, 44, 38, 32, 29, 23, 17, 11,  4, 62,
      46, 55, 26, 59, 40, 36, 15, 53, 34, 51, 20, 43, 31, 22, 10, 45,
      25, 39, 14, 33, 19, 30,  9, 24, 13, 18,  8, 12,  7,  6,  5, 63 >>

\* 0x03f79d71b4cb0a89, least significant byte first
DEBRUIJN_MAGIC_VAL == <<137, 10, 203, 180, 113, 157, 247, 3>>

\* (x * DEBRUIJN_MAGIC_VAL) >> 58: the top six bits of the wrapped product
debruijn_key(x) == wrapping_mul(to_bytes(x), DEBRUIJN_MAGIC_VAL)[8] \div 4

\* fill_one without the wraparound mask
fill_one_unmasked(bb, dir) == BitOr(bb, Shl(bb, shift(dir)))

fill_one(bb, dir) == BitOr(bb, BitAnd(Shl(bb, shift(dir)), mask(dir)))

RECURSIVE fill_loop(_, _, _)
fill_loop(flood, dir, n) ==
    IF n = 0 THEN flood
    ELSE fill_loop(BitOr(flood, fill_one(flood, dir)), dir, n - 1)

\* fill_all whose loop fills from self instead of from flood
fill_all_from_self(bb, dir) == BitOr(bb, fill_one(bb, dir))

\* for _ in 0..=7 { flood |= flood.fill_one(dir) }
fill_all(bb, dir) == fill_loop(bb, dir, 8)

\* bitscan_forward without the test for the empty bitboard
bitscan_forward_unchecked(bb) ==
    DEBRUIJN_LOOKUP[debruijn_key(BitXor(bb, sub_one(bb))) + 1]

bitscan_forward(bb) ==
    IF bb = {} THEN -1
    ELSE DEBRUIJN_LOOKUP[debruijn_key(BitXor(bb, sub_one(bb))) + 1]

\* bitscan_reverse without the last propagation step, val |= val >> 32
bitscan_reverse_short(bb) ==
    IF bb = {} THEN -1
    ELSE LET v1 == BitOr(bb, ShrU64(bb, 1))
             v2 == BitOr(v1, ShrU64(v1, 2))
             v3 == BitOr(v2, ShrU64(v2, 4))
             v4 == BitOr(v3, ShrU64(v3, 8))
             v5 == BitOr(v4, ShrU64(v4, 16))
         IN  DEBRUIJN_LOOKUP[debruijn_key(v5) + 1]

bitscan_reverse(bb) ==
    IF bb = {} THEN -1
    ELSE LET v1 == BitOr(bb, ShrU64(bb, 1))
             v2 == BitOr(v1, ShrU64(v1, 2))
             v3 == BitOr(v2, ShrU64(v2, 4))
             v4 == BitOr(v3, ShrU64(v3, 8))
             v5 == BitOr(v4, ShrU64(v4, 16))
             v6 == BitOr(v5, ShrU64(v5, 32))
         IN  DEBRUIJN_LOOKUP[debruijn_key(v6) + 1]

-----------------------------------------------------------------------------
(* attacks.rs: Attacks::new                                                 *)

\* AttackSet::default(): 64 empty bitboards
AttackSet_default == [s \in Square |-> {}]

\* The per-square loop of Attacks::new visiting every square
Take_every_square == NumSquares

\* Square::iter().take(63)
Take == 63

\* for kdir in KnightDirection::iter() { attacks.knight[sq] = bb.fill_all(&kdir) & !bb; }
RECURSIVE knight_loop(_, _, _)
knight_loop(bb, i, entry) ==
    IF i > Len(KnightDirection) THEN entry
    ELSE knight_loop(bb, i + 1, BitAnd(fill_all(bb, KnightDirection[i]), BitNot(bb)))

\* attacks.king[sq] |= bb.fill_one(&dir) & !bb, over RayDirection::iter()
RECURSIVE king_loop(_, _, _)
king_loop(bb, i, entry) ==
    IF i > Len(RayDirection) THEN entry
    ELSE king_loop(bb, i + 1,
                   BitOr(entry, BitAnd(fill_one(bb, RayDirection[i]), BitNot(bb))))

\* ray_entry without the removal of the origin square
ray_entry_with_origin(bb, dir_idx) == fill_all(bb, RayDirection[dir_idx + 1])

\* attacks.rays[dir_idx][sq] = bb.fill_all(&dir) & !bb
ray_entry(bb, dir_idx) == BitAnd(fill_all(bb, RayDirection[dir_idx + 1]), BitNot(bb))

white_pawn_entry(bb, entry) ==
    BitOr(BitOr(entry, fill_one(bb, "NE")), fill_one(bb, "NW"))

black_pawn_entry(bb, entry) ==
    BitOr(BitOr(entry, fill_one(bb, "SE")), fill_one(bb, "SW"))

Init ==
    /\ pc = "building"
    /\ next_sq = 0
    /\ white_pawn = AttackSet_default
    /\ black_pawn = AttackSet_default
    /\ king = AttackSet_default
    /\ knight = AttackSet_default
    /\ rays = [d \in 0 .. 7 |-> AttackSet_default]
    /\ call = [op |-> "none", sq |-> 0, arg |-> {}]
    /\ ret = {}

\* One iteration of the per-square loop of Attacks::new
NewStep ==
    /\ pc = "building"
    /\ next_sq < Take
    /\ LET sq == next_sq
           bb == Square_bitboard(sq)
       IN  /\ rays' = [d \in 0 .. 7 |-> [rays[d] EXCEPT ![sq] = ray_entry(bb, d)]]
           /\ king' = [king EXCEPT ![sq] = king_loop(bb, 1, king[sq])]
           /\ knight' = [knight EXCEPT ![sq] = knight_loop(bb, 1, knight[sq])]
           /\ white_pawn' = [white_pawn EXCEPT ![sq] = white_pawn_entry(bb, white_pawn[sq])]
           /\ black_pawn' = [black_pawn EXCEPT ![sq] = black_pawn_entry(bb, black_pawn[sq])]
    /\ next_sq' = next_sq + 1
    /\ UNCHANGED <<pc, call, ret>>

\* The loop is exhausted: Attacks::new returns the tables
NewReturn ==
    /\ pc = "building"
    /\ next_sq >= Take
    /\ pc' = "ready"
    /\ UNCHANGED <<next_sq, tables, call, ret>>

-----------------------------------------------------------------------------
(* attacks.rs: the queries                                                  *)

\* A query either returns a Bitboard or panics (expect("Invalid square!")).
Returned(bb) == [ok |-> TRUE, bb |-> bb]

Panicked == [ok |-> FALSE, bb |-> {}]

\* The hardcoded classification of the match in sliding_piece_attacks
scan_blocker(dir, bb) ==
    IF dir \in {"E", "N", "NE", "NW"} THEN bitscan_reverse(bb) ELSE bitscan_forward(bb)

\* The body of `for (dir_idx, dir) in dirs.iter().enumerate()`, from dir_idx on
RECURSIVE sliding_loop(_, _, _, _, _)
sliding_loop(sq, blockers, dirs, dir_idx, attacks) ==
    IF dir_idx >= Len(dirs) THEN Returned(attacks)
    ELSE LET ray == rays[dir_idx][sq]
             pos == scan_blocker(dirs[dir_idx + 1], BitAnd(ray, blockers))
             block == Square_from_i32(pos)
         IN  IF ~block.some THEN Panicked
             ELSE LET unreachable == rays[dir_idx][block.sq]
                  IN  sliding_loop(sq, blockers, dirs, dir_idx + 1,
                                   BitOr(attacks, BitAnd(ray, BitNot(unreachable))))

sliding_piece_attacks(sq, blockers, dirs) == sliding_loop(sq, blockers, dirs, 0, {})

\* Attacks::king without the complement of the danger squares
Attacks_king_keeps_danger(sq, danger_squares) ==
    Returned(BitAnd(king[sq], danger_squares))

Attacks_king(sq, danger_squares) == Returned(BitAnd(king[sq], BitNot(danger_squares)))

Attacks_knight(sq, blockers) == Returned(BitAnd(knight[sq], BitNot(blockers)))

Attacks_bishop(sq, blockers) == sliding_piece_attacks(sq, blockers, BISHOP_DIRS)

Attacks_rook(sq, blockers) == sliding_piece_attacks(sq, blockers, ROOK_DIRS)

\* Attacks::queen with & in place of |
Attacks_queen_and(sq, blockers) ==
    LET r == Attacks_rook(sq, blockers)
    IN  IF ~r.ok THEN Panicked
        ELSE LET b == Attacks_bishop(sq, blockers)
             IN  IF ~b.ok THEN Panicked ELSE Returned(BitAnd(r.bb, b.bb))

\* self.rook(sq, blockers) | self.bishop(sq, blockers), operands evaluated in order
Attacks_queen(sq, blockers) ==
    LET r == Attacks_rook(sq, blockers)
    IN  IF ~r.ok THEN Panicked
        ELSE LET b == Attacks_bishop(sq, blockers)
             IN  IF ~b.ok THEN Panicked ELSE Returned(BitOr(r.bb, b.bb))

\* The bitboards a caller passes: at most MaxOccupied squares set, or all but at
\* most MaxVacant squares set.
RECURSIVE SubsetsUpTo(_)
SubsetsUpTo(k) ==
    IF k = 0 THEN {{}}
    ELSE LET P == SubsetsUpTo(k - 1) IN P \cup {p \cup {s} : p \in P, s \in Square}

\* Bitboards of the tests: test_king's danger squares 0b1110000000000000 and its
\* expected set 0b0011100000101000 (every square a king on E1 attacks), and the rook
\* example's blockers {D1, D7}.
TestBitboards ==
    { from_bytes(<<0, 224, 0, 0, 0, 0, 0, 0>>),
      from_bytes(<<40, 56, 0, 0, 0, 0, 0, 0>>),
      {D1, D7} }

InputBitboards ==
    SubsetsUpTo(MaxOccupied) \cup {BitNot(b) : b \in SubsetsUpTo(MaxVacant)}
        \cup TestBitboards

\* A query that and-assigns its answer into the king table entry (&=)
Answer_writes_table(op, sq, arg, outcome) ==
    /\ call' = [op |-> op, sq |-> sq, arg |-> arg]
    /\ ret' = outcome.bb
    /\ pc' = IF outcome.ok THEN "returned" ELSE "panicked"
    /\ king' = [king EXCEPT ![sq] = BitAnd(king[sq], outcome.bb)]
    /\ UNCHANGED <<next_sq, white_pawn, black_pawn, knight, rays>>

\* A caller issues `op`(sq, arg) against the constructed tables
Answer(op, sq, arg, outcome) ==
    /\ call' = [op |-> op, sq |-> sq, arg |-> arg]
    /\ ret' = outcome.bb
    /\ pc' = IF outcome.ok THEN "returned" ELSE "panicked"
    /\ UNCHANGED <<next_sq, tables>>

King ==
    /\ pc = "ready"
    /\ \E sq \in Square, danger_squares \in InputBitboards :
          Answer("king", sq, danger_squares, Attacks_king(sq, danger_squares))

Knight ==
    /\ pc = "ready"
    /\ \E sq \in Square, blockers \in InputBitboards :
          Answer("knight", sq, blockers, Attacks_knight(sq, blockers))

Bishop ==
    /\ pc = "ready"
    /\ \E sq \in Square, blockers \in InputBitboards :
          Answer("bishop", sq, blockers, Attacks_bishop(sq, blockers))

Rook ==
    /\ pc = "ready"
    /\ \E sq \in Square, blockers \in InputBitboards :
          Answer("rook", sq, blockers, Attacks_rook(sq, blockers))

Queen ==
    /\ pc = "ready"
    /\ \E sq \in Square, blockers \in InputBitboards :
          Answer("queen", sq, blockers, Attacks_queen(sq, blockers))

\* The caller has consumed the returned bitboard; the tables serve the next query
Return ==
    /\ pc = "returned"
    /\ pc' = "ready"
    /\ call' = [op |-> "none", sq |-> 0, arg |-> {}]
    /\ ret' = {}
    /\ UNCHANGED <<next_sq, tables>>

Next ==
    \/ NewStep
    \/ NewReturn
    \/ King
    \/ Knight
    \/ Bishop
    \/ Rook
    \/ Queen
    \/ Return

Spec == Init /\ [][Next]_vars

-----------------------------------------------------------------------------
(* bitboard.rs: popcount, serialize, flip_vertical                          *)

\* u64 << n
ShlU64(bb, n) == {i + n : i \in {j \in bb : j + n <= 63}}

\* u64::rotate_left(n)
rotate_left(bb, n) == {(i + n) % 64 : i \in bb}

\* popcount that shifts the value right instead of clearing its lowest bit
RECURSIVE popcount_loop_shift(_, _)
popcount_loop_shift(val, count) ==
    IF val = {} THEN count
    ELSE popcount_loop_shift(ShrU64(val, 1), count + 1)

\* while val != 0 { pc += 1; val &= val - 1; }
RECURSIVE popcount_loop(_, _)
popcount_loop(val, count) ==
    IF val = {} THEN count
    ELSE popcount_loop(BitAnd(val, sub_one(val)), count + 1)

popcount(bb) == popcount_loop(bb, 0)

\* serialize that scans from the most significant bit
RECURSIVE serialize_loop_reverse(_, _)
serialize_loop_reverse(bb, indices) ==
    IF bb = {} THEN indices
    ELSE serialize_loop_reverse(bb \ {bitscan_reverse(bb)},
                                Append(indices, bitscan_reverse(bb)))

\* while bb.0 != 0 { indices.push(bb.bitscan_forward() as usize); bb.0 &= bb.0 - 1; }
RECURSIVE serialize_loop(_, _)
serialize_loop(bb, indices) ==
    IF bb = {} THEN indices
    ELSE serialize_loop(BitAnd(bb, sub_one(bb)), Append(indices, bitscan_forward(bb)))

serialize(bb) == serialize_loop(bb, <<>>)

\* 0x00FF00FF00FF00FF and 0x0000FFFF0000FFFF
flip_k1 == from_bytes(<<255, 0, 255, 0, 255, 0, 255, 0>>)

flip_k2 == from_bytes(<<255, 255, 0, 0, 255, 255, 0, 0>>)

\* flip_vertical without the final rotate_left(32)
flip_vertical_no_rotate(self) ==
    LET x0 == self
        x1 == BitOr(BitAnd(ShrU64(x0, 8), flip_k1), ShlU64(BitAnd(x0, flip_k1), 8))
        x2 == BitOr(BitAnd(ShrU64(x1, 16), flip_k2), ShlU64(BitAnd(x1, flip_k2), 16))
    IN  [receiver |-> self, bb |-> x2]

\* flip_vertical(&mut self) -> Bitboard: the receiver after the call and the result
flip_vertical(self) ==
    LET x0 == self
        x1 == BitOr(BitAnd(ShrU64(x0, 8), flip_k1), ShlU64(BitAnd(x0, flip_k1), 8))
        x2 == BitOr(BitAnd(ShrU64(x1, 16), flip_k2), ShlU64(BitAnd(x1, flip_k2), 16))
        x3 == rotate_left(x2, 32)
    IN  [receiver |-> self, bb |-> x3]

-----------------------------------------------------------------------------
(* The bitboard primitives called on their own, as the tests of bitboard.rs *)
(* call them: a caller picks a bitboard (and a direction) and takes the     *)
(* result.                                                                  *)

\* Bound: the bitboards given to bitscan_forward and bitscan_reverse hold at most
\* MaxBits squares (or are dense or test bitboards, below)
MaxBits == 2

\* Bound: the bitboards given to the fills, popcount, serialize and flip_vertical
\* hold at most MaxSparseBits squares (or are dense or test bitboards, below)
MaxSparseBits == 1

\* test_popcount: bits 0..i set, for i in 0..=63
PrefixBitboards == {0 .. i : i \in 0 .. 63}

\* test_fill: 0xFF00 and the A file (Bitboard(0b1).fill_all(N))
FillTestBitboards == {from_bytes(<<0, 255, 0, 0, 0, 0, 0, 0>>), A_FILE}

DenseBitboards ==
    {BitNot(b) : b \in SubsetsUpTo(MaxVacant)} \cup TestBitboards
        \cup PrefixBitboards \cup FillTestBitboards

ScanInputs == SubsetsUpTo(MaxBits) \cup DenseBitboards

SparseInputs == SubsetsUpTo(MaxSparseBits) \cup DenseBitboards

RayDirs == {RayDirection[i] : i \in 1 .. Len(RayDirection)}

KnightDirs == {KnightDirection[i] : i \in 1 .. Len(KnightDirection)}

\* No Attacks value is built here: the tables are absent
BitInit ==
    /\ pc = "primitives"
    /\ next_sq = 0
    /\ white_pawn = <<>>
    /\ black_pawn = <<>>
    /\ king = <<>>
    /\ knight = <<>>
    /\ rays = <<>>
    /\ call = [op |-> "none", arg |-> {}, dir |-> "none"]
    /\ ret = {}

\* A primitive is called on `arg` (with direction `dir`) and returns `value`
BitAnswer(op, arg, dir, value) ==
    /\ call' = [op |-> op, arg |-> arg, dir |-> dir]
    /\ ret' = value
    /\ pc' = "returned"
    /\ UNCHANGED <<next_sq, tables>>

FillAll ==
    /\ pc = "primitives"
    /\ \E bb \in SparseInputs, dir \in RayDirs \cup KnightDirs :
        BitAnswer("fill_all", bb, dir, fill_all(bb, dir))

FillOne ==
    /\ pc = "primitives"
    /\ \E bb \in SparseInputs, dir \in RayDirs \cup KnightDirs :
        BitAnswer("fill_one", bb, dir, fill_one(bb, dir))

BitscanForward ==
    /\ pc = "primitives"
    /\ \E bb \in ScanInputs : BitAnswer("bitscan_forward", bb, "none", bitscan_forward(bb))

BitscanReverse ==
    /\ pc = "primitives"
    /\ \E bb \in ScanInputs : BitAnswer("bitscan_reverse", bb, "none", bitscan_reverse(bb))

Popcount ==
    /\ pc = "primitives"
    /\ \E bb \in SparseInputs : BitAnswer("popcount", bb, "none", popcount(bb))

Serialize ==
    /\ pc = "primitives"
    /\ \E bb \in SparseInputs : BitAnswer("serialize", bb, "none", serialize(bb))

FlipVertical ==
    /\ pc = "primitives"
    /\ \E bb \in SparseInputs : BitAnswer("flip_vertical", bb, "none", flip_vertical(bb))

\* The caller has taken the result and calls the next primitive
BitReturn ==
    /\ pc = "returned"
    /\ pc' = "primitives"
    /\ call' = [op |-> "none", arg |-> {}, dir |-> "none"]
    /\ ret' = {}
    /\ UNCHANGED <<next_sq, tables>>

BitNext ==
    \/ FillAll
    \/ FillOne
    \/ BitscanForward
    \/ BitscanReverse
    \/ Popcount
    \/ Serialize
    \/ FlipVertical
    \/ BitReturn

BitSpec == BitInit /\ [][BitNext]_vars

\* ---------------------------------------------------------------------------
\* Queries from several threads on one shared Attacks value (&self receivers)
\* ---------------------------------------------------------------------------

NumThreads == 2

Threads == 1 .. NumThreads

\* The value Attacks::new returns
Attacks_new ==
    [white_pawn |-> [s \in Square |->
                        IF s < Take THEN white_pawn_entry(Square_bitboard(s), {}) ELSE {}],
     black_pawn |-> [s \in Square |->
                        IF s < Take THEN black_pawn_entry(Square_bitboard(s), {}) ELSE {}],
     king       |-> [s \in Square |->
                        IF s < Take THEN king_loop(Square_bitboard(s), 1, {}) ELSE {}],
     knight     |-> [s \in Square |->
                        IF s < Take THEN knight_loop(Square_bitboard(s), 1, {}) ELSE {}],
     rays       |-> [d \in 0 .. 7 |-> [s \in Square |->
                        IF s < Take THEN ray_entry(Square_bitboard(s), d) ELSE {}]]]

\* One iteration of `for (dir_idx, dir) in dirs.iter().enumerate()`
sliding_body(sq, blockers, dirs, dir_idx, attacks) ==
    LET ray == rays[dir_idx][sq]
        pos == scan_blocker(dirs[dir_idx + 1], BitAnd(ray, blockers))
        block == Square_from_i32(pos)
    IN  IF ~block.some THEN Panicked
        ELSE LET unreachable == rays[dir_idx][block.sq]
             IN  Returned(BitOr(attacks, BitAnd(ray, BitNot(unreachable))))

\* The queries the threads issue
ThreadQueries ==
    {[op |-> "king", sq |-> E1, arg |-> {D1}],
     [op |-> "knight", sq |-> A1, arg |-> {}],
     [op |-> "bishop", sq |-> A1, arg |-> ALL_SQUARES],
     [op |-> "rook", sq |-> D4, arg |-> ALL_SQUARES],
     [op |-> "queen", sq |-> D4, arg |-> ALL_SQUARES]}

\* The locals of a thread that is not inside a query
NoCall ==
    [op |-> "none", sq |-> 0, arg |-> {}, phase |-> "none",
     dir_idx |-> 0, attacks |-> {}, first |-> {}]

ThreadInit ==
    /\ pc = [t \in Threads |-> "idle"]
    /\ next_sq = Take
    /\ white_pawn = Attacks_new.white_pawn
    /\ black_pawn = Attacks_new.black_pawn
    /\ king = Attacks_new.king
    /\ knight = Attacks_new.knight
    /\ rays = Attacks_new.rays
    /\ call = [t \in Threads |-> NoCall]
    /\ ret = [t \in Threads |-> {}]

\* Thread t enters one of the five queries; its locals are its own
ThreadCall(t) ==
    /\ pc[t] = "idle"
    /\ \E q \in ThreadQueries :
          call' = [call EXCEPT ![t] =
                      [op |-> q.op, sq |-> q.sq, arg |-> q.arg,
                       phase |-> CASE q.op \in {"king", "knight"} -> "lookup"
                                   [] q.op = "bishop" -> "bishop"
                                   [] OTHER -> "rook",
                       dir_idx |-> 0, attacks |-> {}, first |-> {}]]
    /\ pc' = [pc EXCEPT ![t] = "running"]
    /\ UNCHANGED <<ret, next_sq, tables>>

\* Thread t reads its king or knight entry and returns
LookupStep(t) ==
    /\ pc[t] = "running"
    /\ call[t].phase = "lookup"
    /\ ret' = [ret EXCEPT ![t] =
                  IF call[t].op = "king"
                  THEN Attacks_king(call[t].sq, call[t].arg).bb
                  ELSE Attacks_knight(call[t].sq, call[t].arg).bb]
    /\ pc' = [pc EXCEPT ![t] = "returned"]
    /\ UNCHANGED <<call, next_sq, tables>>

\* A sliding loop whose accumulator is one cell shared by all threads
SlideStep_shared(t) ==
    /\ pc[t] = "running"
    /\ call[t].phase \in {"rook", "bishop"}
    /\ LET c == call[t]
           dirs == IF c.phase = "rook" THEN ROOK_DIRS ELSE BISHOP_DIRS
           out == sliding_body(c.sq, c.arg, dirs, c.dir_idx, call[1].attacks)
           done == c.dir_idx + 1 >= Len(dirs)
       IN  IF ~out.ok
           THEN /\ pc' = [pc EXCEPT ![t] = "panicked"]
                /\ UNCHANGED <<call, ret>>
           ELSE IF ~done
           THEN /\ call' = [call EXCEPT ![t].dir_idx = c.dir_idx + 1,
                                        ![1].attacks = out.bb]
                /\ UNCHANGED <<pc, ret>>
           ELSE IF c.op = "queen" /\ c.phase = "rook"
           THEN /\ call' = [call EXCEPT ![t].phase = "bishop",
                                        ![t].dir_idx = 0,
                                        ![t].first = out.bb,
                                        ![1].attacks = {}]
                /\ UNCHANGED <<pc, ret>>
           ELSE /\ ret' = [ret EXCEPT ![t] =
                              IF c.op = "queen" THEN BitOr(c.first, out.bb) ELSE out.bb]
                /\ pc' = [pc EXCEPT ![t] = "returned"]
                /\ UNCHANGED call
    /\ UNCHANGED <<next_sq, tables>>

\* Thread t runs one iteration of its sliding loop; queen runs rook's loop, then
\* bishop's, then ors the two results
SlideStep(t) ==
    /\ pc[t] = "running"
    /\ call[t].phase \in {"rook", "bishop"}
    /\ LET c == call[t]
           dirs == IF c.phase = "rook" THEN ROOK_DIRS ELSE BISHOP_DIRS
           out == sliding_body(c.sq, c.arg, dirs, c.dir_idx, c.attacks)
           done == c.dir_idx + 1 >= Len(dirs)
       IN  IF ~out.ok
           THEN /\ pc' = [pc EXCEPT ![t] = "panicked"]
                /\ UNCHANGED <<call, ret>>
           ELSE IF ~done
           THEN /\ call' = [call EXCEPT ![t].dir_idx = c.dir_idx + 1,
                                        ![t].attacks = out.bb]
                /\ UNCHANGED <<pc, ret>>
           ELSE IF c.op = "queen" /\ c.phase = "rook"
           THEN /\ call' = [call EXCEPT ![t].phase = "bishop",
                                        ![t].dir_idx = 0,
                                        ![t].first = out.bb,
                                        ![t].attacks = {}]
                /\ UNCHANGED <<pc, ret>>
           ELSE /\ ret' = [ret EXCEPT ![t] =
                              IF c.op = "queen" THEN BitOr(c.first, out.bb) ELSE out.bb]
                /\ pc' = [pc EXCEPT ![t] = "returned"]
                /\ UNCHANGED call
    /\ UNCHANGED <<next_sq, tables>>

\* The caller on thread t takes the result
ThreadReturn(t) ==
    /\ pc[t] = "returned"
    /\ pc' = [pc EXCEPT ![t] = "idle"]
    /\ call' = [call EXCEPT ![t] = NoCall]
    /\ ret' = [ret EXCEPT ![t] = {}]
    /\ UNCHANGED <<next_sq, tables>>

ThreadNext ==
    \E t \in Threads :
        \/ ThreadCall(t)
        \/ LookupStep(t)
        \/ SlideStep(t)
        \/ ThreadReturn(t)

ThreadSpec == ThreadInit /\ [][ThreadNext]_vars

-----------------------------------------------------------------------------
(* castling.rs, position.rs: parsing and printing FEN text.  A &str is a     *)
(* sequence of characters, each a one-character string; its len() is the    *)
(* number of bytes of its UTF-8 encoding.                                   *)

\* Bound: the castling fields tried have at most MaxFieldLen characters
MaxFieldLen == 5

\* All sequences over `chars` of at most n elements
StringsUpTo(chars, n) == UNION {[1 .. k -> chars] : k \in 0 .. n}

\* char::len_utf8 for the characters used: e-acute takes two bytes
len_utf8(ch) == IF ch = "é" THEN 2 ELSE 1

\* str::len
RECURSIVE str_len(_)
str_len(s) == IF s = <<>> THEN 0 ELSE len_utf8(Head(s)) + str_len(Tail(s))

\* str::contains for a one-character pattern
contains(s, ch) == \E i \in 1 .. Len(s) : s[i] = ch

\* Color::White, Color::Black as the index of impl Index<Color> for [u8; 2]
White == 1
Black == 2

\* KINGSIDES = [0b00001000, 0b00000010], QUEENSIDES = [0b00000100, 0b00000001],
\* each u8 as the set of its set bits
KINGSIDES == <<{3}, {1}>>
QUEENSIDES == <<{2}, {0}>>

Ok(v) == [ok |-> TRUE, val |-> v]

Err(e) == [ok |-> FALSE, val |-> e]

\* CastlingRights::from_str whose test for 'k' grants White's kingside right
CastlingRights_from_str_copied(s) ==
    IF str_len(s) > 4 THEN Err("InvalidFenError")
    ELSE IF s = <<"-">> THEN Ok({})
    ELSE Ok((IF contains(s, "K") THEN KINGSIDES[White] ELSE {})
              \cup (IF contains(s, "Q") THEN QUEENSIDES[White] ELSE {})
              \cup (IF contains(s, "k") THEN KINGSIDES[White] ELSE {})
              \cup (IF contains(s, "q") THEN QUEENSIDES[Black] ELSE {}))

\* CastlingRights::from_str; the value is cr.data
CastlingRights_from_str(s) ==
    IF str_len(s) > 4 THEN Err("InvalidFenError")
    ELSE IF s = <<"-">> THEN Ok({})
    ELSE Ok((IF contains(s, "K") THEN KINGSIDES[White] ELSE {})
              \cup (IF contains(s, "Q") THEN QUEENSIDES[White] ELSE {})
              \cup (IF contains(s, "k") THEN KINGSIDES[Black] ELSE {})
              \cup (IF contains(s, "q") THEN QUEENSIDES[Black] ELSE {}))

\* CastlingRights::kingside, CastlingRights::queenside
kingside(data, c) == (data \cap KINGSIDES[c]) # {}

queenside(data, c) == (data \cap QUEENSIDES[c]) # {}

\* impl Display for CastlingRights
CastlingRights_to_string(data) ==
    IF data = {} THEN <<"-">>
    ELSE (IF kingside(data, White) THEN <<"K">> ELSE <<>>)
           \o (IF queenside(data, White) THEN <<"Q">> ELSE <<>>)
           \o (IF kingside(data, Black) THEN <<"k">> ELSE <<>>)
           \o (IF queenside(data, Black) THEN <<"q">> ELSE <<>>)

\* The characters of the castling fields tried
CastlingChars == {"K", "Q", "k", "q", "-", "é"}

CastlingFields == StringsUpTo(CastlingChars, MaxFieldLen)

\* enum Piece, in declaration order, and the character of each (TryFrom<char>, Display)
Piece == <<"WPawn", "WKnight", "WBishop", "WRook", "WQueen", "WKing",
           "BPawn", "BKnight", "BBishop", "BRook", "BQueen", "BKing">>

PieceChar == <<"P", "N", "B", "R", "Q", "K", "p", "n", "b", "r", "q", "k">>

Pieces == {Piece[i] : i \in 1 .. Len(Piece)}

\* Piece::color
Piece_color(piece) ==
    IF piece \in {"WPawn", "WKnight", "WBishop", "WRook", "WQueen", "WKing"}
    THEN White ELSE Black

\* Piece::try_from(char)
Piece_try_from(ch) ==
    IF \E i \in 1 .. Len(PieceChar) : PieceChar[i] = ch
    THEN Ok(Piece[CHOOSE i \in 1 .. Len(PieceChar) : PieceChar[i] = ch])
    ELSE Err("InvalidPieceError")

\* impl Display for Piece
Piece_to_string(piece) == PieceChar[CHOOSE i \in 1 .. Len(Piece) : Piece[i] = piece]

\* char::to_digit(10): the digit's value, or -1 for None
DecimalDigits == <<"0", "1", "2", "3", "4", "5", "6", "7", "8", "9">>

to_digit(ch) ==
    IF \E i \in 1 .. Len(DecimalDigits) : DecimalDigits[i] = ch
    THEN (CHOOSE i \in 1 .. Len(DecimalDigits) : DecimalDigits[i] = ch) - 1
    ELSE -1

\* char::is_ascii_uppercase
is_ascii_uppercase(ch) == ch \in {"A", "B", "C", "D", "E", "F", "G", "H", "I", "J", "K", "L", "M", "N", "O", "P", "Q", "R", "S", "T", "U", "V", "W", "X", "Y", "Z"}

\* str::split(sep): the pieces of s between the occurrences of sep, in order
RECURSIVE split_from(_, _, _, _)
split_from(s, sep, i, current) ==
    IF i > Len(s) THEN <<current>>
    ELSE IF s[i] = sep THEN <<current>> \o split_from(s, sep, i + 1, <<>>)
    ELSE split_from(s, sep, i + 1, Append(current, s[i]))

split(s, sep) == split_from(s, sep, 1, <<>>)

\* str::rsplit(sep): the same pieces, last first
rsplit(s, sep) ==
    LET parts == split(s, sep)
    IN  [i \in 1 .. Len(parts) |-> parts[Len(parts) + 1 - i]]

\* Self([Bitboard::default(); 14]): the two colour bitboards and the twelve piece
\* bitboards
PieceSet_default == [colors |-> <<{}, {}>>, pieces |-> [p \in Pieces |-> {}]]

\* PieceSet::occupied, PieceSet::empty
PieceSet_occupied(val) == BitOr(val.colors[White], val.colors[Black])

PieceSet_empty(val) == BitXor(ALL_SQUARES, PieceSet_occupied(val))

\* File::from_u32
File_from_u32(f) == IF f \in 0 .. 7 THEN Ok(f) ELSE Err("None")

\* board::try_index
try_index(file, rank) == (8 * rank) + file

\* rank_chars without `f += 1` after a piece is placed
RECURSIVE rank_chars_no_advance(_, _, _, _, _)
rank_chars_no_advance(pieces, rank, i, f, val) ==
    IF i > Len(pieces) THEN Ok(val)
    ELSE LET ch == pieces[i]
             skip == to_digit(ch)
         IN  IF skip # -1
             THEN rank_chars_no_advance(pieces, rank, i + 1,
                                        IF skip # 8 THEN f + skip ELSE f, val)
             ELSE IF ~File_from_u32(f).ok THEN Err("InvalidFenError")
             ELSE LET color == IF is_ascii_uppercase(ch) THEN White ELSE Black
                      piece == Piece_try_from(ch)
                  IN  IF ~piece.ok THEN Err("InvalidPieceError")
                      ELSE LET bb == {try_index(f, rank)}
                           IN  rank_chars_no_advance(pieces, rank, i + 1, f,
                                   [colors |-> [val.colors EXCEPT ![color] = BitOr(@, bb)],
                                    pieces |-> [val.pieces EXCEPT ![piece.val] = BitOr(@, bb)]])

\* The body of `for ch in pieces.chars()` from the i-th character on, within the
\* closure of try_for_each: Ok(val) or the first error
RECURSIVE rank_chars(_, _, _, _, _)
rank_chars(pieces, rank, i, f, val) ==
    IF i > Len(pieces) THEN Ok(val)
    ELSE LET ch == pieces[i]
             skip == to_digit(ch)
         IN  IF skip # -1
             THEN rank_chars(pieces, rank, i + 1, IF skip # 8 THEN f + skip ELSE f, val)
             ELSE IF ~File_from_u32(f).ok THEN Err("InvalidFenError")
             ELSE LET color == IF is_ascii_uppercase(ch) THEN White ELSE Black
                      piece == Piece_try_from(ch)
                  IN  IF ~piece.ok THEN Err("InvalidPieceError")
                      ELSE LET bb == {try_index(f, rank)}
                           IN  rank_chars(pieces, rank, i + 1, f + 1,
                                   [colors |-> [val.colors EXCEPT ![color] = BitOr(@, bb)],
                                    pieces |-> [val.pieces EXCEPT ![piece.val] = BitOr(@, bb)]])

\* fen.rsplit("/").zip(Rank::iter()).try_for_each(..), from the k-th pair on
RECURSIVE rank_loop(_, _, _)
rank_loop(parts, k, val) ==
    IF k > Len(parts) \/ k > 8 THEN Ok(val)
    ELSE LET r == rank_chars(parts[k], k - 1, 1, 0, val)
         IN  IF ~r.ok THEN r ELSE rank_loop(parts, k + 1, r.val)

\* PieceSet::from_str
PieceSet_from_str(fen) == rank_loop(rsplit(fen, "/"), 1, PieceSet_default)

\* i32::MAX and i32::MIN
MaxI32 == 2147483647

MinI32 == (-MaxI32) - 1

\* The digits of str::parse::<i32> from the i-th character on; m is the magnitude
\* read so far.  None of its intermediate values leaves the 32-bit range.
RECURSIVE parse_digits(_, _, _, _)
parse_digits(s, i, m, negative) ==
    IF i > Len(s) THEN Ok(IF negative THEN -m ELSE m)
    ELSE LET d == to_digit(s[i])
         IN  IF d = -1 THEN Err("InvalidFenError")
             ELSE IF m <= (MaxI32 - d) \div 10
             THEN parse_digits(s, i + 1, (m * 10) + d, negative)
             ELSE IF negative /\ i = Len(s) /\ m = MaxI32 \div 10 /\ d = 8
             THEN Ok(MinI32)
             ELSE Err("InvalidFenError")

\* str::parse::<i32>, its ParseIntError converted by From<ParseIntError>
parse_i32(s) ==
    IF s = <<>> THEN Err("InvalidFenError")
    ELSE IF s[1] \in {"+", "-"}
    THEN IF Len(s) = 1 THEN Err("InvalidFenError")
         ELSE parse_digits(s, 2, 0, s[1] = "-")
    ELSE parse_digits(s, 1, 0, FALSE)

\* i32::to_string
RECURSIVE magnitude_to_string(_)
magnitude_to_string(m) ==
    IF m < 10 THEN <<DecimalDigits[m + 1]>>
    ELSE Append(magnitude_to_string(m \div 10), DecimalDigits[(m % 10) + 1])

i32_to_string(n) ==
    IF n >= 0 THEN magnitude_to_string(n)
    ELSE LET last == (10 - (n % 10)) % 10
             rest == -((n + last) \div 10)
         IN  <<"-">> \o (IF rest = 0 THEN <<>> ELSE magnitude_to_string(rest))
                     \o <<DecimalDigits[last + 1]>>

\* Color::from_str (strum::EnumString with serialize "w" and "b")
Color_from_str(s) ==
    IF s = <<"w">> THEN Ok(White)
    ELSE IF s = <<"b">> THEN Ok(Black)
    ELSE Err("InvalidColor")

\* The file letters and rank digits of the names of enum Square
FileLetters == <<"A", "B", "C", "D", "E", "F", "G", "H">>

LowerFileLetters == <<"a", "b", "c", "d", "e", "f", "g", "h">>

\* str::to_uppercase on the characters a square name can match
to_uppercase(ch) ==
    IF \E i \in 1 .. 8 : LowerFileLetters[i] = ch
    THEN FileLetters[CHOOSE i \in 1 .. 8 : LowerFileLetters[i] = ch]
    ELSE ch

\* Square::from_str
Square_from_str(s) ==
    IF str_len(s) # 2 \/ Len(s) # 2 THEN Err("InvalidSquareError")
    ELSE LET f == to_uppercase(s[1])
             r == to_digit(s[2])
         IN  IF (\E i \in 1 .. 8 : FileLetters[i] = f) /\ r \in 1 .. 8
             THEN Ok(index((CHOOSE i \in 1 .. 8 : FileLetters[i] = f) - 1, r - 1))
             ELSE Err("InvalidSquareError")

\* Square's strum::Display with serialize_all = "lowercase"
Square_to_string(sq) ==
    <<LowerFileLetters[FileOf(sq) + 1], DecimalDigits[RankOf(sq) + 2]>>

\* [..].join(sep)
RECURSIVE join(_, _)
join(parts, sep) ==
    IF Len(parts) = 0 THEN <<>>
    ELSE IF Len(parts) = 1 THEN parts[1]
    ELSE parts[1] \o <<sep>> \o join(Tail(parts), sep)

\* Position::piece: the piece name, or "None"
Position_piece(pos, square) ==
    LET m == Square_bitboard(square)
        at(piece) == BitAnd(pos.pieces.pieces[piece], m) # {}
        first(names) ==
            IF \E i \in 1 .. Len(names) : at(names[i])
            THEN names[CHOOSE i \in 1 .. Len(names) :
                          at(names[i]) /\ \A j \in 1 .. (i - 1) : ~at(names[j])]
            ELSE "None"
    IN  IF BitAnd(pos.empty, m) # {} THEN "None"
        ELSE IF BitAnd(pos.pieces.colors[White], m) # {}
        THEN first(SubSeq(Piece, 1, 6))
        ELSE first(SubSeq(Piece, 7, 12))

\* Position::fen, the piece placement of one rank from `file` on
RECURSIVE fen_rank(_, _, _, _)
fen_rank(pos, rank, file, empty) ==
    IF file > 7
    THEN IF empty > 0 THEN i32_to_string(empty) ELSE <<>>
    ELSE LET piece == Position_piece(pos, try_index(file, rank))
         IN  IF piece # "None"
             THEN (IF empty > 0 THEN i32_to_string(empty) ELSE <<>>)
                    \o <<Piece_to_string(piece)>>
                    \o fen_rank(pos, rank, file + 1, 0)
             ELSE fen_rank(pos, rank, file + 1, empty + 1)

\* Position::fen that joins the en-passant field before the castling field
Position_fen_ep_first(pos) ==
    LET pieces == join([k \in 1 .. 8 |-> fen_rank(pos, 8 - k, 0, 0)], "/")
        active_color == IF pos.side_to_move = White THEN <<"w">> ELSE <<"b">>
        ep == IF pos.ep = -1 THEN <<"-">> ELSE Square_to_string(pos.ep)
        cr == CastlingRights_to_string(pos.castling_rights)
        ply == i32_to_string(pos.ply)
        fullmove == i32_to_string(pos.fullmove)
    IN  join(<<pieces, active_color, ep, cr, ply, fullmove>>, " ")

\* Position::fen
Position_fen(pos) ==
    LET pieces == join([k \in 1 .. 8 |-> fen_rank(pos, 8 - k, 0, 0)], "/")
        active_color == IF pos.side_to_move = White THEN <<"w">> ELSE <<"b">>
        ep == IF pos.ep = -1 THEN <<"-">> ELSE Square_to_string(pos.ep)
        cr == CastlingRights_to_string(pos.castling_rights)
        ply == i32_to_string(pos.ply)
        fullmove == i32_to_string(pos.fullmove)
    IN  join(<<pieces, active_color, cr, ep, ply, fullmove>>, " ")

\* Position::try_from_fen; ep is -1 for None; indexing `fields` past its end panics
Position_try_from_fen(fen) ==
    LET fields == split(fen, " ")
        pieces == PieceSet_from_str(fields[1])
        active == Color_from_str(fields[2])
        castling_rights == CastlingRights_from_str(fields[3])
        ep_square == IF fields[4] = <<"-">> THEN Ok(-1) ELSE Square_from_str(fields[4])
        ply == parse_i32(fields[5])
        fullmove == parse_i32(fields[6])
    IN  IF ~pieces.ok THEN pieces
        ELSE IF Len(fields) < 2 THEN Err("panic")
        ELSE IF ~active.ok THEN active
        ELSE IF Len(fields) < 3 THEN Err("panic")
        ELSE IF ~castling_rights.ok THEN castling_rights
        ELSE IF Len(fields) < 4 THEN Err("panic")
        ELSE IF ~ep_square.ok THEN ep_square
        ELSE IF Len(fields) < 5 THEN Err("panic")
        ELSE IF ~ply.ok THEN ply
        ELSE IF Len(fields) < 6 THEN Err("panic")
        ELSE IF ~fullmove.ok THEN fullmove
        ELSE Ok([empty |-> PieceSet_empty(pieces.val),
                 occupied |-> PieceSet_occupied(pieces.val),
                 ep |-> ep_square.val,
                 castling_rights |-> castling_rights.val,
                 side_to_move |-> active.val,
                 pieces |-> pieces.val,
                 ply |-> ply.val,
                 fullmove |-> fullmove.val])

\* Bound: the piece placements tried, besides those of the tests, have at most
\* MaxPlacementLen characters
MaxPlacementLen == 4

\* The characters of the short piece placements tried
PlacementChars == {"P", "n", "7", "8", "9", "/", "x"}

\* STARTING_FEN and the cases of tests::test_build_position_from_random_fen: their
\* piece placements
TestPlacements ==
    {<<"r", "n", "b", "q", "k", "b", "n", "r", "/", "p", "p", "p", "p", "p", "p", "p",
       "p", "/", "8", "/", "8", "/", "8", "/", "8", "/", "P", "P", "P", "P", "P", "P",
       "P", "P", "/", "R", "N", "B", "Q", "K", "B", "N", "R">>,
     <<"r", "n", "b", "q", "k", "b", "n", "r", "/", "p", "p", "p", "p", "p", "p", "p",
       "p", "/", "8", "/", "8", "/", "4", "P", "3", "/", "8", "/", "P", "P", "P", "P",
       "1", "P", "P", "P", "/", "R", "N", "B", "Q", "K", "B", "N", "R">>,
     <<"r", "n", "b", "q", "k", "b", "n", "r", "/", "p", "p", "1", "p", "p", "p", "p",
       "p", "/", "8", "/", "2", "p", "5", "/", "4", "P", "3", "/", "8", "/", "P", "P",
       "P", "P", "1", "P", "P", "P", "/", "R", "N", "B", "Q", "K", "B", "N", "R">>,
     <<"r", "n", "b", "q", "k", "b", "n", "r", "/", "p", "p", "1", "p", "p", "p", "p",
       "p", "/", "8", "/", "2", "p", "5", "/", "4", "P", "3", "/", "5", "N", "2", "/",
       "P", "P", "P", "P", "1", "P", "P", "P", "/", "R", "N", "B", "Q", "K", "B", "1",
       "R">>,
     <<"4", "k", "3", "/", "8", "/", "8", "/", "8", "/", "8", "/", "8", "/", "4", "P",
       "3", "/", "4", "K", "3">>,
     <<"r", "3", "k", "2", "r", "/", "P", "p", "p", "p", "1", "p", "p", "p", "/", "1",
       "b", "3", "n", "b", "N", "/", "n", "P", "6", "/", "B", "B", "P", "1", "P", "3",
       "/", "q", "4", "N", "2", "/", "P", "p", "1", "P", "2", "P", "P", "/", "R", "2",
       "Q", "1", "R", "K", "1">>}

\* A placement whose last rank writes three empty squares as "12"
UnmergedPlacement ==
    <<"4", "k", "3", "/", "8", "/", "8", "/", "8", "/", "8", "/", "8", "/", "4", "P",
      "3", "/", "4", "K", "1", "2">>

PlacementStrings ==
    StringsUpTo(PlacementChars, MaxPlacementLen) \cup TestPlacements
        \cup {UnmergedPlacement}

\* "-" and the non-empty selections of K, Q, k, q in that order
CastlingSelections ==
    {CastlingRights_to_string(data) : data \in SUBSET (0 .. 3)}

\* En-passant fields: none, a square of the test cases, and a corner
EpFields == {<<"-">>, <<"e", "3">>, <<"h", "8">>}

\* Counter fields: those of the tests, the largest i32 and the numeral after it,
\* and numerals with a leading zero or a sign
CounterFields ==
    {<<"0">>, <<"1">>, <<"5">>, <<"3", "9">>, i32_to_string(MaxI32),
     Append(SubSeq(i32_to_string(MaxI32), 1, 9), "8"), <<"0", "0">>, <<"+", "1">>}

CounterPairs ==
    {<<h, <<"1">>>> : h \in CounterFields} \cup {<<<<"0">>, f>> : f \in CounterFields}

\* The FEN strings given to Position::from_str: every placement with every side,
\* castling field and en-passant field, and every placement with every counter
FenStrings ==
    {join(<<p, side, c, e, n[1], n[2]>>, " ") :
        p \in TestPlacements \cup {UnmergedPlacement}, side \in {<<"w">>, <<"b">>},
        c \in CastlingSelections, e \in EpFields,
        n \in {<<<<"0">>, <<"1">>>>, <<<<"5">>, <<"3", "9">>>>}}
    \cup
    {join(<<p, side, c, <<"-">>, n[1], n[2]>>, " ") :
        p \in TestPlacements \cup {UnmergedPlacement}, side \in {<<"w">>, <<"b">>},
        c \in {<<"-">>, <<"K", "Q", "k", "q">>}, n \in CounterPairs}

FenInit ==
    /\ pc = "text"
    /\ next_sq = 0
    /\ white_pawn = <<>>
    /\ black_pawn = <<>>
    /\ king = <<>>
    /\ knight = <<>>
    /\ rays = <<>>
    /\ call = [op |-> "none", arg |-> <<>>]
    /\ ret = <<>>

\* A parser is called on the text `arg` and returns `value`
FenAnswer(op, arg, value) ==
    /\ call' = [op |-> op, arg |-> arg]
    /\ ret' = value
    /\ pc' = "returned"
    /\ UNCHANGED <<next_sq, tables>>

\* CastlingRights::from_str(s)
CastlingFromStr ==
    /\ pc = "text"
    /\ \E s \in CastlingFields :
          FenAnswer("CastlingRights::from_str", s, CastlingRights_from_str(s))

\* PieceSet::from_str(fen)
PieceSetFromStr ==
    /\ pc = "text"
    /\ \E fen \in PlacementStrings :
          FenAnswer("PieceSet::from_str", fen, PieceSet_from_str(fen))

\* Position::from_str(fen), and to_string() of the position when it is Ok
PositionFromStr ==
    /\ pc = "text"
    /\ \E fen \in FenStrings :
          LET pos == Position_try_from_fen(fen)
          IN  FenAnswer("Position::from_str", fen,
                        [parsed |-> pos,
                         printed |-> IF pos.ok THEN Position_fen(pos.val) ELSE <<>>])

FenReturn ==
    /\ pc = "returned"
    /\ pc' = "text"
    /\ call' = [op |-> "none", arg |-> <<>>]
    /\ ret' = <<>>
    /\ UNCHANGED <<next_sq, tables>>

FenNext == CastlingFromStr \/ PieceSetFromStr \/ PositionFromStr \/ FenReturn

FenSpec == FenInit /\ [][FenNext]_vars

-----------------------------------------------------------------------------
(* Board geometry in files and ranks, against which the tables and the      *)
(* answers are stated.                                                      *)

Abs(x) == IF x < 0 THEN -x ELSE x

\* The step of a ray direction, in files and in ranks
DirFile(d) == CASE d \in {"NE", "E", "SE"} -> 1
                [] d \in {"NW", "W", "SW"} -> -1
                [] d \in {"N", "S"} -> 0

DirRank(d) == CASE d \in {"NW", "N", "NE"} -> 1
                [] d \in {"SW", "S", "SE"} -> -1
                [] d \in {"E", "W"} -> 0

\* Number of king steps between two squares
Steps(s, t) ==
    LET df == Abs(FileOf(t) - FileOf(s))
        dr == Abs(RankOf(t) - RankOf(s))
    IN  IF df > dr THEN df ELSE dr

\* The squares strictly beyond s along d, up to the board edge
RaySquares(s, d) ==
    {t \in Square : \E k \in 1 .. 7 :
        /\ FileOf(t) = FileOf(s) + k * DirFile(d)
        /\ RankOf(t) = RankOf(s) + k * DirRank(d)}

\* The squares a slider on s sees along d: up to and including the first blocker
SlideReach(s, blockers, d) ==
    {t \in RaySquares(s, d) :
        \A u \in RaySquares(s, d) \cap blockers : Steps(s, u) >= Steps(s, t)}

SlideSquares(s, blockers, dirs) ==
    UNION {SlideReach(s, blockers, dirs[i]) : i \in 1 .. Len(dirs)}

KingSquares(s) == {t \in Square : t # s /\ Steps(s, t) = 1}

KnightSquares(s) ==
    {t \in Square :
        {Abs(FileOf(t) - FileOf(s)), Abs(RankOf(t) - RankOf(s))} = {1, 2}}

WhitePawnSquares(s) ==
    {t \in Square : RankOf(t) = RankOf(s) + 1 /\ Abs(FileOf(t) - FileOf(s)) = 1}

BlackPawnSquares(s) ==
    {t \in Square : RankOf(t) = RankOf(s) - 1 /\ Abs(FileOf(t) - FileOf(s)) = 1}

Sliders == {"rook", "bishop", "queen"}

\* The directions of a sliding piece
PieceDirs(op) ==
    CASE op = "rook" -> ROOK_DIRS
      [] op = "bishop" -> BISHOP_DIRS
      [] op = "queen" -> RayDirection

Constructed == pc # "building"

Answered == pc \in {"returned", "panicked"}

-----------------------------------------------------------------------------
(* The claims                                                               *)

\* C1: a rook, bishop or queen query that returns, returns exactly the squares
\* reachable by sliding from the square in each of the piece's directions up to and
\* including the first blocker on that line or the board edge.
C1_SlidingExact ==
    (pc = "returned" /\ call.op \in Sliders)
        => ret = SlideSquares(call.sq, call.arg, PieceDirs(call.op))

\* C2: no rook, bishop or queen query on a valid square ends in the
\* 'Invalid square!' fault; each returns a bitboard.
C2_NoInvalidSquareFault ==
    (Answered /\ call.op \in Sliders) => pc = "returned"

\* C3: in a sliding query, when the ray fetched for a direction has no blocker on it
\* (the bit scan of ray & blockers returns -1), the query still returns and its
\* result holds that whole ray.
C3_SentinelYieldsWholeRay ==
    (Answered /\ call.op \in Sliders) =>
        \A dir_idx \in 0 .. 3 :
            bitscan_forward(BitAnd(rays[dir_idx][call.sq], call.arg)) = -1
                => (pc = "returned" /\ rays[dir_idx][call.sq] \subseteq ret)

\* C4: rook(D4, {D1, D7}) returns D1, D2, D3, D5, D6, D7 and A4, B4, C4, E4, F4, G4,
\* H4, and nothing else.
C4_RookD4 ==
    (Answered /\ call = [op |-> "rook", sq |-> D4, arg |-> {D1, D7}]) =>
        /\ pc = "returned"
        /\ ret = {index(FileOf(D4), r) : r \in {0, 1, 2, 4, 5, 6}}
                   \cup {index(f, RankOf(D4)) : f \in {0, 1, 2, 4, 5, 6, 7}}

\* C5: after Attacks::new, the king entry of each of the 64 squares is exactly the
\* set of on-board squares one step away in the 8 ray directions, and king(S, empty)
\* returns that set.
C5_KingTable ==
    /\ Constructed => \A s \in Square : king[s] = KingSquares(s)
    /\ (pc = "returned" /\ call.op = "king" /\ call.arg = {})
          => ret = KingSquares(call.sq)

\* C6: king(S, D) is the king table entry of S minus D: it shares no square with D
\* and is empty when D contains the whole entry.
C6_KingMinusDanger ==
    (pc = "returned" /\ call.op = "king") =>
        /\ ret = king[call.sq] \ call.arg
        /\ ret \cap call.arg = {}
        /\ (king[call.sq] \subseteq call.arg => ret = {})

\* C6, its case: a king on E1 whose danger squares are exactly its attack set
C6_Witness ==
    /\ pc = "returned"
    /\ call.op = "king"
    /\ call.sq = E1
    /\ king[E1] # {}
    /\ call.arg = king[E1]
    /\ ret = {}

\* C7: after Attacks::new, the knight entry of every square is exactly the on-board
\* destinations of the 8 knight leaps from it.
C7_KnightTable ==
    Constructed => \A s \in Square : knight[s] = KnightSquares(s)

\* C8: knight(A1, B) returns exactly {B3, C2} whenever B holds neither B3 nor C2.
C8_KnightA1 ==
    (pc = "returned" /\ call.op = "knight" /\ call.sq = A1
        /\ call.arg \cap {B3, C2} = {}) => ret = {B3, C2}

\* C9: after Attacks::new, the white-pawn entry of every square S is exactly the
\* on-board squares one step NE and NW of S and the black-pawn entry those one step
\* SE and SW; neither holds S or any other square.
C9_PawnTables ==
    Constructed =>
        \A s \in Square :
            /\ white_pawn[s] = WhitePawnSquares(s)
            /\ black_pawn[s] = BlackPawnSquares(s)

\* C10: after Attacks::new, for every square S from A1 to H8 and every ray direction
\* D, rays[D][S] is exactly the squares strictly beyond S along D up to the board
\* edge.
C10_AllRays ==
    Constructed =>
        \A s \in Square : \A dir_idx \in 0 .. 7 :
            rays[dir_idx][s] = RaySquares(s, RayDirection[dir_idx + 1])

\* The least and the greatest bit index of a non-empty bitboard
MinBit(bb) == CHOOSE i \in bb : \A j \in bb : i <= j

MaxBit(bb) == CHOOSE i \in bb : \A j \in bb : i >= j

\* C11, as claimed: fill_all of the singleton of S along a ray direction D does not
\* contain S, and is exactly the squares beyond S along D up to the board edge.
C11_FillAllExcludesOrigin ==
    (pc = "returned" /\ call.op = "fill_all" /\ call.dir \in RayDirs
        /\ Cardinality(call.arg) = 1) =>
        LET s == CHOOSE x \in call.arg : TRUE
        IN  s \notin ret /\ ret = RaySquares(s, call.dir)

\* C11, amended: fill_all of the singleton of S along a ray direction D is S itself
\* together with every square beyond S along D up to the board edge, and nothing else.
C11_FillAllSingleton ==
    (pc = "returned" /\ call.op = "fill_all" /\ call.dir \in RayDirs
        /\ Cardinality(call.arg) = 1) =>
        LET s == CHOOSE x \in call.arg : TRUE
        IN  ret = {s} \cup RaySquares(s, call.dir)

\* C11, its case: the fill of H4 to the East, where an unmasked shift would wrap
C11_Witness ==
    /\ pc = "returned"
    /\ call.op = "fill_all"
    /\ call.arg = {index(7, 3)}
    /\ call.dir = "E"
    /\ ret = {index(7, 3)}

\* C13: once Attacks::new has returned, no step changes any entry of any table.
C13_QueriesKeepTables == [][Constructed => tables' = tables]_vars

\* C13, its case: a sliding query has been answered on the constructed tables
C13_Witness ==
    /\ pc = "returned"
    /\ call.op = "rook"
    /\ ret # {}
    /\ king[call.sq] # {}

\* The outcome of a query that runs from call to return with no other step between
AloneAnswer(op, sq, arg) ==
    CASE op = "king" -> Attacks_king(sq, arg)
      [] op = "knight" -> Attacks_knight(sq, arg)
      [] op = "bishop" -> Attacks_bishop(sq, arg)
      [] op = "rook" -> Attacks_rook(sq, arg)
      [] OTHER -> Attacks_queen(sq, arg)

\* C14: under any interleaving of queries issued from several threads on one
\* Attacks value, every query ends as it ends when run alone: it returns the
\* same bitboard, and it panics exactly when the lone query panics.
C14_ThreadsAnswerAsAlone ==
    \A t \in Threads :
        pc[t] \in {"returned", "panicked"} =>
            LET alone == AloneAnswer(call[t].op, call[t].sq, call[t].arg)
            IN  /\ (pc[t] = "returned") = alone.ok
                /\ alone.ok => ret[t] = alone.bb

\* C14, its case: one thread has its queen answer while another is inside its loop
C14_Witness ==
    /\ pc[1] = "returned"
    /\ call[1].op = "queen"
    /\ ret[1] # {}
    /\ pc[2] = "running"
    /\ call[2].op = "rook"
    /\ call[2].dir_idx = 2
    /\ call[2].attacks # {}

\* C15: whenever rook(S, B) and bishop(S, B) return, queen(S, B) returns their union.
C15_QueenIsRookOrBishop ==
    (Answered /\ call.op = "queen") =>
        LET r == Attacks_rook(call.sq, call.arg)
            b == Attacks_bishop(call.sq, call.arg)
        IN  (r.ok /\ b.ok) => (pc = "returned" /\ ret = r.bb \cup b.bb)

\* C15, its case: a queen query for which rook and bishop return different sets
C15_Witness ==
    /\ pc = "returned"
    /\ call.op = "queen"
    /\ call.sq = D4
    /\ Attacks_rook(D4, call.arg).ok
    /\ Attacks_bishop(D4, call.arg).ok
    /\ Attacks_rook(D4, call.arg).bb # Attacks_bishop(D4, call.arg).bb
    /\ Attacks_rook(D4, call.arg).bb \subseteq ret

\* C16: on a non-empty bitboard bitscan_forward returns the index of the least
\* significant set bit and bitscan_reverse that of the most significant set bit.
C16_BitscanIndices ==
    (pc = "returned" /\ call.arg # {}) =>
        /\ call.op = "bitscan_forward" => ret = MinBit(call.arg)
        /\ call.op = "bitscan_reverse" => ret = MaxBit(call.arg)

\* C16, its case: two bits set, the reverse scan returns the larger index
C16_Witness ==
    /\ pc = "returned"
    /\ call.op = "bitscan_reverse"
    /\ Cardinality(call.arg) = 2
    /\ ret = MaxBit(call.arg)
    /\ ret # MinBit(call.arg)

\* C17: on the empty bitboard both scans return -1, which is no entry of the
\* De Bruijn lookup table.
C17_EmptyScanSentinel ==
    (pc = "returned" /\ call.op \in {"bitscan_forward", "bitscan_reverse"}
        /\ call.arg = {}) =>
        /\ ret = -1
        /\ \A k \in 1 .. Len(DEBRUIJN_LOOKUP) : DEBRUIJN_LOOKUP[k] # ret

\* C17, its case: the forward scan of the empty bitboard
C17_Witness ==
    /\ pc = "returned"
    /\ call.op = "bitscan_forward"
    /\ call.arg = {}
    /\ ret = -1

\* C18: popcount(bb) is the number of set bits of bb and the length of
\* serialize(bb); each loop runs once per counted bit.
C18_PopcountSerialize ==
    /\ (pc = "returned" /\ call.op = "popcount") =>
          (ret = Cardinality(call.arg) /\ ret = Len(serialize(call.arg)))
    /\ (pc = "returned" /\ call.op = "serialize") =>
          (Len(ret) = Cardinality(call.arg) /\ Len(ret) = popcount(call.arg))

\* C18, its case: the population count of a bitboard with gaps between its bits
C18_Witness ==
    /\ pc = "returned"
    /\ call.op = "popcount"
    /\ call.arg = from_bytes(<<40, 56, 0, 0, 0, 0, 0, 0>>)
    /\ ret = 5

\* C19: serialize(bb) is strictly ascending and its elements are exactly the
\* indices of the set bits of bb.
C19_SerializeAscending ==
    (pc = "returned" /\ call.op = "serialize") =>
        /\ \A i \in 1 .. (Len(ret) - 1) : ret[i] < ret[i + 1]
        /\ {ret[i] : i \in 1 .. Len(ret)} = call.arg

\* C19, its case: a bitboard of five squares
C19_Witness ==
    /\ pc = "returned"
    /\ call.op = "serialize"
    /\ ret = <<3, 5, 11, 12, 13>>

\* C20: flip_vertical(bb) holds (file f, rank 7 - r) exactly when bb holds
\* (file f, rank r); applied twice it returns bb; the receiver is unchanged.
C20_FlipVertical ==
    (pc = "returned" /\ call.op = "flip_vertical") =>
        /\ ret.bb = {index(FileOf(s), 7 - RankOf(s)) : s \in call.arg}
        /\ flip_vertical(ret.bb).bb = call.arg
        /\ ret.receiver = call.arg

\* C20, its case: the king set of E1 mirrored to the king set of E8
C20_Witness ==
    /\ pc = "returned"
    /\ call.op = "flip_vertical"
    /\ call.arg = {3, 5, 11, 12, 13}
    /\ ret.bb = {51, 52, 53, 59, 61}

\* C21: fill_one(bb, D) is bb united with the squares t of D's wraparound mask
\* for which t minus D's shift amount is a square of bb; for a ray direction the
\* squares are bb and the on-board one-step neighbours in D of the squares of bb.
C21_FillOneStep ==
    (pc = "returned" /\ call.op = "fill_one") =>
        /\ ret = call.arg \cup
                   {t \in mask(call.dir) : (t - shift(call.dir)) \in call.arg}
        /\ call.dir \in RayDirs =>
              ret = call.arg \cup
                      {t \in Square : \E s \in call.arg :
                          /\ FileOf(t) = FileOf(s) + DirFile(call.dir)
                          /\ RankOf(t) = RankOf(s) + DirRank(call.dir)}

\* C21, its case: H4 filled one step to the North-West adds G5 alone
C21_Witness ==
    /\ pc = "returned"
    /\ call.op = "fill_one"
    /\ call.arg = {index(7, 3)}
    /\ call.dir = "NW"
    /\ ret = {index(7, 3), index(6, 4)}

\* C22: for a ray direction D, fill_all(bb, D) is the set of squares reachable
\* from a square of bb by zero or more on-board steps in D, and one more
\* fill_one in D adds nothing to it.
C22_FillAllReach ==
    (pc = "returned" /\ call.op = "fill_all" /\ call.dir \in RayDirs) =>
        /\ ret = call.arg \cup UNION {RaySquares(s, call.dir) : s \in call.arg}
        /\ fill_one(ret, call.dir) = ret

\* C22, its case: the fill of A1 to the North-East crosses the whole board
C22_Witness ==
    /\ pc = "returned"
    /\ call.op = "fill_all"
    /\ call.arg = {A1}
    /\ call.dir = "NE"
    /\ H8 \in ret
    /\ Cardinality(ret) = 8

\* The index under which Attacks::new stored the rays of direction d
StoredIndex(d) == CHOOSE i \in 0 .. 7 : RayDirection[i + 1] = d

\* The square of a non-empty set nearest to s
Nearest(s, set) == CHOOSE t \in set : \A u \in set : Steps(s, t) <= Steps(s, u)

\* C25: in a rook or bishop query, the ray read at the origin square for the i-th
\* direction D of the piece's list is the ray construction stored for D.
C25_SameDirectionRay ==
    (Answered /\ call.op \in {"rook", "bishop"}) =>
        \A i \in 0 .. 3 :
            rays[i][call.sq] = rays[StoredIndex(PieceDirs(call.op)[i + 1])][call.sq]

\* C26: in a rook or bishop query that returns, on each ray read the square the
\* hardcoded scan selects is the blocker on that ray nearest to the origin.
C26_NearestBlocker ==
    (pc = "returned" /\ call.op \in {"rook", "bishop"}) =>
        \A i \in 0 .. 3 :
            LET onray == BitAnd(rays[i][call.sq], call.arg)
            IN  onray # {} =>
                    scan_blocker(PieceDirs(call.op)[i + 1], onray)
                        = Nearest(call.sq, onray)

\* C27: the sentinel -1 converts to no square, and a sliding query in which some
\* ray holds no blocker ends in the 'Invalid square!' fault and returns nothing.
C27_SentinelFaults ==
    /\ ~Square_from_i32(-1).some
    /\ ~Square_from_i32(NumSquares).some
    /\ (Answered /\ call.op \in {"rook", "bishop"}
          /\ \E i \in 0 .. 3 : BitAnd(rays[i][call.sq], call.arg) = {})
          => (pc = "panicked" /\ ret = {})

\* C27, its case: a rook on D4 on the empty board
C27_Witness ==
    /\ pc = "panicked"
    /\ call.op = "rook"
    /\ call.sq = D4
    /\ call.arg = {}

\* C28: when Attacks::new has returned, for every square S from A1 to G8 and
\* every ray direction D, rays[D][S] is exactly the squares strictly beyond S along
\* D up to the board edge, and king[S] is exactly the squares adjacent to S.
C28_TablesA1ToG8 ==
    pc = "ready" =>
        \A s \in 0 .. (Take - 1) :
            /\ \A dir_idx \in 0 .. 7 :
                  rays[dir_idx][s] = RaySquares(s, RayDirection[dir_idx + 1])
            /\ king[s] = KingSquares(s)

\* C28, its case: the constructed tables hold the long diagonal from A1 and the
\* neighbours of G8
C28_Witness ==
    /\ pc = "ready"
    /\ rays[1][A1] = {index(k, k) : k \in 1 .. 7}
    /\ king[index(6, 7)] = {index(5, 7), index(5, 6), index(6, 6), index(7, 6), H8}

C24_CastlingFromStr ==
    (pc = "returned" /\ call.op = "CastlingRights::from_str") =>
        /\ str_len(call.arg) <= 4 =>
              /\ ret.ok
              /\ kingside(ret.val, White) <=> contains(call.arg, "K")
              /\ queenside(ret.val, White) <=> contains(call.arg, "Q")
              /\ kingside(ret.val, Black) <=> contains(call.arg, "k")
              /\ queenside(ret.val, Black) <=> contains(call.arg, "q")
              /\ call.arg = <<"-">> => ret.val = {}
        /\ Len(call.arg) > 4 => (~ret.ok /\ ret.val = "InvalidFenError")

\* C24, its case: "Kk" grants the two kingside rights and no other
C24_Witness ==
    /\ pc = "returned"
    /\ call.op = "CastlingRights::from_str"
    /\ call.arg = <<"K", "k">>
    /\ ret = Ok(KINGSIDES[White] \cup KINGSIDES[Black])

\* The piece bitboards of one colour
ColorPieces(c) == {p \in Pieces : Piece_color(p) = c}

\* C30: when PieceSet::from_str succeeds, the twelve piece bitboards are pairwise
\* disjoint, each colour bitboard is the union of its six piece bitboards, the two
\* colour bitboards are disjoint, and empty() is the complement of occupied().
C30_PieceSetPartition ==
    (pc = "returned" /\ call.op = "PieceSet::from_str" /\ ret.ok) =>
        LET val == ret.val
        IN  /\ \A p \in Pieces : \A q \in Pieces \ {p} :
                  val.pieces[p] \cap val.pieces[q] = {}
            /\ \A c \in {White, Black} :
                  val.colors[c] = UNION {val.pieces[p] : p \in ColorPieces(c)}
            /\ val.colors[White] \cap val.colors[Black] = {}
            /\ PieceSet_empty(val) = Square \ PieceSet_occupied(val)

\* C30, its case: the starting placement, white on ranks 1 and 2, black on 7 and 8
C30_Witness ==
    /\ pc = "returned"
    /\ call.op = "PieceSet::from_str"
    /\ ret.ok
    /\ ret.val.colors[White] = 0 .. 15
    /\ ret.val.colors[Black] = 48 .. 63
    /\ ret.val.pieces["WKing"] = {E1}

\* The shape of a FEN string in canonical form, field by field
RECURSIVE RankWidth(_)
RankWidth(r) ==
    IF r = <<>> THEN 0
    ELSE (IF to_digit(Head(r)) = -1 THEN 1 ELSE to_digit(Head(r))) + RankWidth(Tail(r))

CanonicalRank(r) ==
    /\ \A i \in 1 .. Len(r) : Piece_try_from(r[i]).ok \/ to_digit(r[i]) \in 1 .. 8
    /\ \A i \in 1 .. (Len(r) - 1) : to_digit(r[i]) = -1 \/ to_digit(r[i + 1]) = -1
    /\ RankWidth(r) = 8

CanonicalPlacement(p) ==
    LET ranks == split(p, "/")
    IN  Len(ranks) = 8 /\ \A k \in 1 .. 8 : CanonicalRank(ranks[k])

CanonicalCastling(c) == c \in CastlingSelections

CanonicalEp(e) ==
    \/ e = <<"-">>
    \/ /\ Len(e) = 2
       /\ \E i \in 1 .. 8 : LowerFileLetters[i] = e[1]
       /\ to_digit(e[2]) \in 1 .. 8

\* A decimal counter: one or more decimal digits
DecimalCounter(n) == Len(n) >= 1 /\ \A i \in 1 .. Len(n) : to_digit(n[i]) # -1

\* A decimal counter with no leading zero whose value is at most i32::MAX
I32Counter(n) ==
    /\ DecimalCounter(n)
    /\ Len(n) > 1 => n[1] # "0"
    /\ Len(n) <= 10
    /\ Len(n) = 10 =>
          \A i \in 1 .. 10 :
              (\A j \in 1 .. (i - 1) : n[j] = i32_to_string(MaxI32)[j])
                  => to_digit(n[i]) <= to_digit(i32_to_string(MaxI32)[i])

CanonicalFields(f) ==
    /\ Len(f) = 6
    /\ CanonicalPlacement(f[1])
    /\ f[2] \in {<<"w">>, <<"b">>}
    /\ CanonicalCastling(f[3])
    /\ CanonicalEp(f[4])

\* C23, as claimed: for a FEN string in canonical form with two decimal counters,
\* Position::from_str succeeds and to_string() of the result is the same string.
C23_FenRoundTrip ==
    (pc = "returned" /\ call.op = "Position::from_str") =>
        LET f == split(call.arg, " ")
        IN  (CanonicalFields(f) /\ DecimalCounter(f[5]) /\ DecimalCounter(f[6]))
                => (ret.parsed.ok /\ ret.printed = call.arg)

\* C23, amended: for a FEN string in canonical form whose two counters are decimal
\* numerals without a leading zero and of value at most 2147483647,
\* Position::from_str succeeds and to_string() of the result is the same string.
C23_FenRoundTripI32 ==
    (pc = "returned" /\ call.op = "Position::from_str") =>
        LET f == split(call.arg, " ")
        IN  (CanonicalFields(f) /\ I32Counter(f[5]) /\ I32Counter(f[6]))
                => (ret.parsed.ok /\ ret.printed = call.arg)

\* C23, its case: a canonical FEN with an en-passant square and black to move is
\* parsed and printed back
C23_Witness ==
    /\ pc = "returned"
    /\ call.op = "Position::from_str"
    /\ CanonicalFields(split(call.arg, " "))
    /\ split(call.arg, " ")[2] = <<"b">>
    /\ split(call.arg, " ")[3] = <<"K", "q">>
    /\ split(call.arg, " ")[4] = <<"e", "3">>
    /\ split(call.arg, " ")[5] = <<"5">>
    /\ ret.parsed.ok
    /\ ret.parsed.val.ep = index(4, 2)
    /\ ret.parsed.val.ply = 5
    /\ ret.printed = call.arg

====
